---- MODULE Spec2Model ----
(***************************************************************************)
(* A model of the Block Blast mini-app front end, src/frontend/src/App.js. *)
(*                                                                         *)
(* App.js holds two versions of the module one after the other: the        *)
(* earlier one (lines 1-382; src/unnamed/part_000 is an older variant of   *)
(* it with the same game panel, whose LeadersTab renders leader.score and  *)
(* whose ProfileTab takes no props and fetches nothing)                    *)
(* and the current one (lines 383-898).  The variable build says which     *)
(* one runs:                                                               *)
(*   "current"  the App of lines 712-897 with the session bootstrap, the   *)
(*              re-sync effect and the iframe game panel of 411-490;       *)
(*   "earlier"  the App of lines 329-380 (a 2 s loading timer, no user)    *)
(*              with the game panel of 29-145 (end button, poll);          *)
(*   "panel"    the game panel of 29-145 mounted on its own with a user    *)
(*              prop, the component taken as a unit with its props as      *)
(*              inputs.                                                    *)
(*                                                                         *)
(* React is modelled by what it does to this code: a state setter takes    *)
(* effect at the end of the synchronous block that calls it, an effect     *)
(* with dependency [user] is scheduled by every commit in which setUser    *)
(* was given a new object and runs later as a callback of its own, so that *)
(* an answer to a call in flight or a timer may run in between, and a      *)
(* component whose element type changes at the same place in the tree is   *)
(* unmounted and a fresh one mounted.  A network call is a request in      *)
(* flight that some later step completes, with success or with failure.    *)
(***************************************************************************)
EXTENDS Integers, Sequences, FiniteSets, TLC

VARIABLES
    build,          \* which version of the module runs
    tg,             \* window.Telegram?.WebApp (line 389), the host identity input
    pc,             \* where initializeApp / createDemoUser / the loading timer stand
    user,           \* App state (line 715)
    userStats,      \* App state (lines 716-723)
    isLoading,      \* App state (line 714 / 331)
    effects,        \* runs of the re-sync effect (lines 839-858) that a committed
                    \* render has scheduled and that have not run yet, each the
                    \* user value its closure holds
    resync,         \* GET /stats/user/{id} calls in flight from the re-sync effect,
                    \* each the user value its closure holds
    demoCalls,      \* history: calls of createDemoUser
    usersPosts,     \* history: POST /users calls issued
    userSets,       \* history: calls of setUser
    realOutcome,    \* history: how the real-identity path ended
    demoOutcome,    \* history: how the demo-identity path ended
    bootRank,       \* history: the rank the bootstrap's own rank fetch returned
    activeTab,      \* App state (line 713 / 330)
    now,            \* the last value Date.now() returned, in ms
    score,          \* BlockBlastGame state (line 412 / 30)
    gameOver,       \* BlockBlastGame state (line 413 / 31)
    isPlaying,      \* BlockBlastGame state (line 414 / 32)
    gameStartTime,  \* BlockBlastGame state (line 415 / 33)
    pollTimers,     \* the intervals of line 81 set and not cleared, each the
                    \* isPlaying and gameStartTime its closure holds
    panelUser,      \* the user prop of the panel build
    submits,        \* POST /scores calls in flight, each its request body
    leaders,        \* LeadersTab state (line 506 / 161)
    leadersLoading, \* LeadersTab state (line 507 / 162)
    leadersReq,     \* GET /leaderboard of the mounted LeadersTab is in flight
    leadersReads,   \* history: GET /leaderboard calls the mounted LeadersTab issued
    leadersOutcome, \* history: how the mounted LeadersTab's GET ended
    profileStats,   \* ProfileTab state (lines 592-599 / 238-245)
    profileLoading, \* ProfileTab state (line 600 / 246)
    profileReq,     \* the user in the closure of the mounted ProfileTab's GET in
                    \* flight, or null
    profileReads,   \* history: GET /stats/user/{id} calls the mounted ProfileTab
                    \* issued
    profileOutcome, \* history: how the mounted ProfileTab's GET ended
    events,         \* history: user interactions so far (clicks)
    lastEvent,      \* history: the handler the last user interaction ran
    mounts,         \* history: panels mounted so far
    ends,           \* history: calls of simulateGameOver
    scorePosts,     \* history: POST /scores calls issued
    scoreOks        \* history: POST /scores calls answered with success

bootVars == <<build, tg, pc, user, userStats, isLoading, effects, resync,
              demoCalls, usersPosts, userSets, realOutcome, demoOutcome, bootRank>>
gameVars == <<score, gameOver, isPlaying, gameStartTime, pollTimers>>
leadersVars == <<leaders, leadersLoading, leadersReq, leadersReads, leadersOutcome>>
profileVars == <<profileStats, profileLoading, profileReq, profileReads, profileOutcome>>
panelVars == <<gameVars, leadersVars, profileVars>>
histVars == <<events, lastEvent, mounts, ends, scorePosts, scoreOks>>
uiVars == <<activeTab, now, panelUser, submits, panelVars, histVars>>
vars == <<bootVars, uiVars>>

-----------------------------------------------------------------------------
(* JavaScript values.  A string slot holds a string, undefined or null; a   *)
(* number slot holds a number or undefined; an object slot holds a record   *)
(* or null.                                                                 *)

Undef == "<undefined>"
NullStr == "<null>"
UndefNum == -1
Null == [null |-> TRUE]

\* a string operand of || is falsy when undefined, null or empty
Truthy(s) == s \notin {Undef, NullStr, ""}

\* a || b on string slots
Or(a, b) == IF Truthy(a) THEN a ELSE b

\* ${x} in a template literal
Str(s) == IF s = Undef THEN "undefined" ELSE IF s = NullStr THEN "null" ELSE s
NumStr(n) == IF n = UndefNum THEN "undefined" ELSE ToString(n)

\* user && user.id
HasId(u) == u # Null /\ Truthy(u.id)

-----------------------------------------------------------------------------
(* Inputs: the host identity and what the remote API answers.               *)

\* tg.initDataUnsafe.user
HostAlice == [id |-> 42, username |-> "alice", first_name |-> "Alice",
              last_name |-> Undef, photo_url |-> Undef]
HostBob == [id |-> 43, username |-> Undef, first_name |-> "Bob",
            last_name |-> "B", photo_url |-> "bob.png"]

NoTg == [present |-> FALSE]
TgWith(u, throws) == [present |-> TRUE, user |-> u, readyThrows |-> throws]

\* no host; a host without a user; a host with a user; a host whose ready() throws
TgInputs == {NoTg, TgWith(Null, FALSE), TgWith(HostAlice, FALSE),
             TgWith(HostBob, FALSE), TgWith(HostAlice, TRUE)}

\* Math.floor(Math.random() * 1000000000)
DemoTelegramIds == {0, 999999999}

\* the server's row for a telegram id: the known player 42 has played before,
\* anyone else is created with zero stats
ServerRow(telegramId) ==
    IF telegramId = 42
      THEN [id |-> "u42", best_score |-> 100, games_played |-> 3, total_score |-> 250]
      ELSE [id |-> "u" \o NumStr(telegramId), best_score |-> 0, games_played |-> 0,
            total_score |-> 0]

\* POST /users answers a user record: the identity sent, the server's id and
\* stats for it; the server may leave the names out
CreateUserResponses(req) ==
    { [id |-> ServerRow(req.telegram_id).id,
       telegram_id |-> req.telegram_id,
       username |-> IF names = "all" THEN req.username ELSE Undef,
       first_name |-> IF names = "none" THEN Undef ELSE req.first_name,
       photo_url |-> req.photo_url,
       best_score |-> ServerRow(req.telegram_id).best_score,
       games_played |-> ServerRow(req.telegram_id).games_played,
       total_score |-> ServerRow(req.telegram_id).total_score] :
      names \in {"all", "first", "none"} }

\* GET /stats/user/{id} answers {rank, ...}; rank may be missing
RankResponses == {3, 7, UndefNum}

-----------------------------------------------------------------------------
(* The App's pure parts.                                                    *)

\* lines 716-723
InitialStats == [username |-> "Player", avatar |-> NullStr, bestScore |-> 0,
                 gamesPlayed |-> 0, totalScore |-> 0, rank |-> 0]

\* lines 745-751
UserData(t) ==
    [telegram_id |-> t.id,
     username |-> Or(t.username, Str(t.first_name) \o "_" \o NumStr(t.id)),
     first_name |-> t.first_name,
     last_name |-> t.last_name,
     photo_url |-> t.photo_url]

\* lines 794-799
DemoUserData(r) ==
    [username |-> "DemoPlayer", first_name |-> "Demo", last_name |-> "Player",
     telegram_id |-> r, photo_url |-> Undef]

\* lines 764, 806, 845, 608
DisplayName(u) ==
    Or(u.username, Or(u.first_name, "ID: " \o NumStr(u.telegram_id)))

\* MergeStats with two fields mixed up: bestScore read from total_score
MergeStatsMixed(u, rank) ==
    [username |-> DisplayName(u),
     avatar |-> u.photo_url,
     bestScore |-> u.total_score,
     gamesPlayed |-> u.games_played,
     totalScore |-> u.total_score,
     rank |-> rank]

\* lines 763-770, 805-812, 844-851
MergeStats(u, rank) ==
    [username |-> DisplayName(u),
     avatar |-> u.photo_url,
     bestScore |-> u.best_score,
     gamesPlayed |-> u.games_played,
     totalScore |-> u.total_score,
     rank |-> rank]

\* lines 816-822
LocalDemoUser ==
    [id |-> "demo-user", username |-> "DemoPlayer", best_score |-> 0,
     total_score |-> 0, games_played |-> 0,
     first_name |-> Undef, telegram_id |-> UndefNum, photo_url |-> Undef]

\* lines 824-831
FallbackStats == [username |-> "DemoPlayer", avatar |-> NullStr, bestScore |-> 0,
                  gamesPlayed |-> 0, totalScore |-> 0, rank |-> 0]

\* the body of the re-sync effect of lines 839-858 run for a render whose user
\* is u: one more GET in flight when u has an id
ResyncAfterSetUser(u) == IF HasId(u) THEN Append(resync, u) ELSE resync

\* setUser(u) and the commit of the render it causes: the [user] effect of
\* that render is scheduled, to run as a callback of its own
EffectsAfterSetUser(u) == Append(effects, u)

-----------------------------------------------------------------------------
(* Session bootstrap (current build).                                       *)

\* createDemoUser is entered: lines 793-801, up to the await of POST /users
EnterDemo ==
    /\ pc' = "demoPost"
    /\ demoCalls' = demoCalls + 1
    /\ usersPosts' = usersPosts + 1

\* the finally of lines 785-790: the 2 s timer is set
EnterTimer == pc' = "timer"

\* lines 734-753, 777-784: the mount effect calls initializeApp
StartApp ==
    /\ build = "current"
    /\ pc = "init"
    /\ IF tg.present /\ tg.user # Null
         THEN IF tg.readyThrows
                THEN \* tg.ready() throws: the outer catch calls createDemoUser
                     /\ EnterDemo
                     /\ realOutcome' = "threw"
                ELSE /\ pc' = "realPost"
                     /\ usersPosts' = usersPosts + 1
                     /\ UNCHANGED <<demoCalls, realOutcome>>
         ELSE /\ EnterDemo
              /\ UNCHANGED realOutcome
    /\ UNCHANGED <<build, tg, user, userStats, isLoading, effects, resync, userSets,
                   demoOutcome, bootRank>>
    /\ UNCHANGED uiVars

\* lines 755-762: POST /users answered; setUser, then the rank fetch is issued
RealPostOk ==
    /\ pc = "realPost"
    /\ \E data \in CreateUserResponses(UserData(tg.user)) :
         /\ user' = data
         /\ effects' = EffectsAfterSetUser(data)
    /\ userSets' = userSets + 1
    /\ pc' = "realStats"
    /\ UNCHANGED <<build, tg, userStats, isLoading, resync, demoCalls, usersPosts,
                   realOutcome, demoOutcome, bootRank>>
    /\ UNCHANGED uiVars

\* lines 772-776: POST /users failed; the catch calls createDemoUser
RealPostFail ==
    /\ pc = "realPost"
    /\ EnterDemo
    /\ realOutcome' = "fail"
    /\ UNCHANGED <<build, tg, user, userStats, isLoading, effects, resync, userSets,
                   demoOutcome, bootRank>>
    /\ UNCHANGED uiVars

\* lines 762-771: the rank fetch answered; setUserStats, then the finally
RealStatsOk ==
    /\ pc = "realStats"
    /\ \E rank \in RankResponses :
         /\ userStats' = MergeStats(user, rank)
         /\ bootRank' = rank
    /\ realOutcome' = "ok"
    /\ EnterTimer
    /\ UNCHANGED <<build, tg, user, isLoading, effects, resync, demoCalls, usersPosts,
                   userSets, demoOutcome>>
    /\ UNCHANGED uiVars

\* lines 772-776: the rank fetch failed; the catch calls createDemoUser
RealStatsFail ==
    /\ pc = "realStats"
    /\ EnterDemo
    /\ realOutcome' = "fail"
    /\ UNCHANGED <<build, tg, user, userStats, isLoading, effects, resync, userSets,
                   demoOutcome, bootRank>>
    /\ UNCHANGED uiVars

\* lines 801-804: the demo POST /users answered; setUser, rank fetch issued
DemoPostOk ==
    /\ pc = "demoPost"
    /\ \E r \in DemoTelegramIds :
         \E data \in CreateUserResponses(DemoUserData(r)) :
            /\ user' = data
            /\ effects' = EffectsAfterSetUser(data)
    /\ userSets' = userSets + 1
    /\ pc' = "demoStats"
    /\ UNCHANGED <<build, tg, userStats, isLoading, resync, demoCalls, usersPosts,
                   realOutcome, demoOutcome, bootRank>>
    /\ UNCHANGED uiVars

\* DemoFallback without its setUser: the catch only sets the stats
DemoFallbackNoUser ==
    /\ user' = user
    /\ userStats' = FallbackStats
    /\ effects' = effects
    /\ resync' = resync
    /\ userSets' = userSets
    /\ demoOutcome' = "fail"
    /\ EnterTimer

\* lines 814-832: the catch of createDemoUser: the local user and zero stats
DemoFallback ==
    /\ user' = LocalDemoUser
    /\ userStats' = FallbackStats
    /\ effects' = EffectsAfterSetUser(LocalDemoUser)
    /\ resync' = resync
    /\ userSets' = userSets + 1
    /\ demoOutcome' = "fail"
    /\ EnterTimer

\* the demo POST /users failed
DemoPostFail ==
    /\ pc = "demoPost"
    /\ DemoFallback
    /\ UNCHANGED <<build, tg, isLoading, demoCalls, usersPosts, realOutcome, bootRank>>
    /\ UNCHANGED uiVars

\* lines 804-813: the demo rank fetch answered
DemoStatsOk ==
    /\ pc = "demoStats"
    /\ \E rank \in RankResponses :
         /\ userStats' = MergeStats(user, rank)
         /\ bootRank' = rank
    /\ demoOutcome' = "ok"
    /\ EnterTimer
    /\ UNCHANGED <<build, tg, user, isLoading, effects, resync, demoCalls, usersPosts,
                   userSets, realOutcome>>
    /\ UNCHANGED uiVars

\* DemoStatsFail retrying: the catch calls createDemoUser again
DemoStatsFailRetry ==
    /\ pc = "demoStats"
    /\ EnterDemo
    /\ demoOutcome' = "fail"
    /\ UNCHANGED <<build, tg, user, userStats, isLoading, effects, resync, userSets,
                   realOutcome, bootRank>>
    /\ UNCHANGED uiVars

\* the demo rank fetch failed
DemoStatsFail ==
    /\ pc = "demoStats"
    /\ DemoFallback
    /\ UNCHANGED <<build, tg, isLoading, demoCalls, usersPosts, realOutcome, bootRank>>
    /\ UNCHANGED uiVars

\* one element of a sequence taken out
RemoveAt(s, i) == [j \in 1..(Len(s) - 1) |-> IF j < i THEN s[j] ELSE s[j + 1]]

\* lines 839-842, 855-857: React runs the [user] effect scheduled by the
\* oldest commit not yet served; it issues its GET when its user has an id
ResyncEffect ==
    /\ effects # <<>>
    /\ resync' = ResyncAfterSetUser(Head(effects))
    /\ effects' = Tail(effects)
    /\ UNCHANGED <<build, tg, pc, user, userStats, isLoading, demoCalls, usersPosts,
                   userSets, realOutcome, demoOutcome, bootRank>>
    /\ UNCHANGED uiVars

\* lines 843-851: a re-sync GET answered; its closure's user is merged
ResyncOk ==
    /\ \E i \in 1..Len(resync) :
         /\ \E rank \in RankResponses : userStats' = MergeStats(resync[i], rank)
         /\ resync' = RemoveAt(resync, i)
    /\ UNCHANGED <<build, tg, pc, user, isLoading, effects, demoCalls, usersPosts,
                   userSets, realOutcome, demoOutcome, bootRank>>
    /\ UNCHANGED uiVars

\* lines 852-854: a re-sync GET failed; logged only
ResyncFail ==
    /\ \E i \in 1..Len(resync) : resync' = RemoveAt(resync, i)
    /\ UNCHANGED <<build, tg, pc, user, userStats, isLoading, effects, demoCalls,
                   usersPosts, userSets, realOutcome, demoOutcome, bootRank>>
    /\ UNCHANGED uiVars

-----------------------------------------------------------------------------
(* Bounds and inputs of the panels.                                         *)

\* user interactions (clicks) in one run
MaxEvents == 4

\* the tab ids of lines 726-732 / 333-339
Tabs == {"duels", "leaders", "game", "shop", "profile"}

\* tabs.find(tab => tab.id === activeTab)?.component || BlockBlastGame
\* (line 868 / 353)
Component(tab) ==
    CASE tab = "duels" -> "DuelsTab"
      [] tab = "leaders" -> "LeadersTab"
      [] tab = "game" -> "BlockBlastGame"
      [] tab = "shop" -> "ShopTab"
      [] tab = "profile" -> "ProfileTab"
      [] OTHER -> "BlockBlastGame"

\* Math.floor(Math.random() * 10000) + 1000 (line 429 / 47): its least and
\* greatest value
FinalScores == {1000, 10999}

\* the time that passes between two reads of Date.now(), in ms
ElapsedMs == {500, 1500}

\* the user prop of the panel build: none, a record without an id, the local
\* fallback user, a server user
PanelUsers ==
    {Null, [LocalDemoUser EXCEPT !.id = Undef], LocalDemoUser}
    \cup CreateUserResponses(UserData(HostAlice))

\* the user prop BlockBlastGame is given: line 874 passes user, line 359
\* passes nothing
GameUser ==
    CASE build = "current" -> user
      [] build = "earlier" -> Null
      [] OTHER -> panelUser

\* the user prop ProfileTab is given
ProfileUser == IF build = "current" THEN user ELSE Null

\* GET /leaderboard answers an ordered sequence of entries
LeaderboardResponses ==
    {<<>>,
     <<[user_id |-> "u42", username |-> "alice", best_score |-> 100, rank |-> 1,
        photo_url |-> Undef],
       [user_id |-> "u43", username |-> "Bob_43", best_score |-> 0, rank |-> 2,
        photo_url |-> "bob.png"]>>}

\* lines 517-523
PlaceholderLeadersCurrent ==
    <<[user_id |-> "1", username |-> "ProGamer", best_score |-> 15420, rank |-> 1,
       photo_url |-> "https://via.placeholder.com/40/FFD700/FFFFFF?text=P"],
      [user_id |-> "2", username |-> "BlockMaster", best_score |-> 12890, rank |-> 2,
       photo_url |-> "https://via.placeholder.com/40/C0C0C0/FFFFFF?text=B"],
      [user_id |-> "3", username |-> "PuzzleKing", best_score |-> 11230, rank |-> 3,
       photo_url |-> "https://via.placeholder.com/40/CD7F32/FFFFFF?text=P"],
      [user_id |-> "4", username |-> "GameHero", best_score |-> 9870, rank |-> 4,
       photo_url |-> "https://via.placeholder.com/40/AAAAAA/FFFFFF?text=G"],
      [user_id |-> "5", username |-> "BlastExpert", best_score |-> 8450, rank |-> 5,
       photo_url |-> "https://via.placeholder.com/40/DDDDDD/FFFFFF?text=B"]>>

\* lines 517-523 / 172-178: the earlier version's entries have no photo_url
PlaceholderLeaders ==
    IF build = "current"
      THEN PlaceholderLeadersCurrent
      ELSE [i \in 1..Len(PlaceholderLeadersCurrent) |->
              [PlaceholderLeadersCurrent[i] EXCEPT !.photo_url = Undef]]

\* the greatest number of entries LeadersTab renders (line 550)
MaxShown == 50

\* leaders.slice(0, 50) (line 550); the earlier version renders all (line 203)
ShownLeaders ==
    IF build = "current" /\ Len(leaders) > MaxShown
      THEN SubSeq(leaders, 1, MaxShown)
      ELSE leaders

\* x || 0 on a number slot
NumOr0(n) == IF n = UndefNum THEN 0 ELSE n

\* ProfileFallbackStats with the rank left out of the object
ProfileFallbackStatsNoRank(u) ==
    [username |-> DisplayName(u),
     avatar |-> u.photo_url,
     bestScore |-> NumOr0(u.best_score),
     gamesPlayed |-> NumOr0(u.games_played),
     totalScore |-> NumOr0(u.total_score),
     rank |-> UndefNum]

\* lines 617-624: the stats ProfileTab shows when its fetch failed
ProfileFallbackStats(u) ==
    [username |-> DisplayName(u),
     avatar |-> u.photo_url,
     bestScore |-> NumOr0(u.best_score),
     gamesPlayed |-> NumOr0(u.games_played),
     totalScore |-> NumOr0(u.total_score),
     rank |-> 0]

-----------------------------------------------------------------------------
(* Mounting and unmounting the panels.                                      *)

\* line 81: setInterval with a callback closing over this render's isPlaying
\* and gameStartTime
PollSetup(timers, playing, startTime) ==
    Append(timers, [isPlaying |-> playing, gameStartTime |-> startTime])

\* line 93: the cleanup clears the interval its effect run has set, the
\* latest one
PollCleanup(timers) ==
    IF timers = <<>> THEN timers ELSE SubSeq(timers, 1, Len(timers) - 1)

\* PollRerun without the cleanup of line 93
PollRerunLeaky(playing, startTime) ==
    IF build = "current"
      THEN pollTimers
      ELSE PollSetup(pollTimers, playing, startTime)

\* lines 80-94, deps [isPlaying, gameStartTime]: a render with a changed
\* dependency runs the cleanup of the last run and then the effect again;
\* the current panel has no such effect
PollRerun(playing, startTime) ==
    IF build = "current"
      THEN pollTimers
      ELSE PollSetup(PollCleanup(pollTimers), playing, startTime)

\* an interval is set and not cleared
pollLive == pollTimers # <<>>

\* NoGame with the session kept while no game panel is mounted
NoGameKeepSession ==
    /\ UNCHANGED <<score, gameOver, isPlaying, gameStartTime>>
    /\ pollTimers' = PollCleanup(pollTimers)

\* BlockBlastGame mounts: lines 412-415 / 30-33; the earlier panel's effect of
\* lines 80-94 sets its interval
MountGame ==
    /\ score' = 0
    /\ gameOver' = FALSE
    /\ isPlaying' = FALSE
    /\ gameStartTime' = UndefNum
    /\ pollTimers' = IF build = "current"
                       THEN pollTimers
                       ELSE PollSetup(pollTimers, FALSE, UndefNum)

\* no BlockBlastGame is mounted: its state is gone, the effect's cleanup of
\* line 93 has cleared the interval
NoGame ==
    /\ score' = 0
    /\ gameOver' = FALSE
    /\ isPlaying' = FALSE
    /\ gameStartTime' = UndefNum
    /\ pollTimers' = PollCleanup(pollTimers)

\* LeadersTab mounts: lines 506-530 / 161-185, the effect issues GET /leaderboard
MountLeaders ==
    /\ leaders' = <<>>
    /\ leadersLoading' = TRUE
    /\ leadersReq' = TRUE
    /\ leadersReads' = 1
    /\ leadersOutcome' = "none"

\* no LeadersTab is mounted; an answer still to come finds no component
NoLeaders ==
    /\ leaders' = <<>>
    /\ leadersLoading' = TRUE
    /\ leadersReq' = FALSE
    /\ leadersReads' = 0
    /\ leadersOutcome' = "none"

\* ProfileTab mounts: lines 592-631 / 238-277; without a user with an id the
\* effect sets loading to false at once
MountProfile ==
    /\ profileStats' = InitialStats
    /\ IF HasId(ProfileUser)
         THEN /\ profileLoading' = TRUE
              /\ profileReq' = ProfileUser
              /\ profileReads' = 1
         ELSE /\ profileLoading' = FALSE
              /\ profileReq' = Null
              /\ profileReads' = 0
    /\ profileOutcome' = "none"

\* no ProfileTab is mounted
NoProfile ==
    /\ profileStats' = InitialStats
    /\ profileLoading' = TRUE
    /\ profileReq' = Null
    /\ profileReads' = 0
    /\ profileOutcome' = "none"

\* <ActiveComponent .../> (line 874 / 359) renders the panel of tab anew
ShowPanel(tab) ==
    /\ IF Component(tab) = "BlockBlastGame" THEN MountGame ELSE NoGame
    /\ IF Component(tab) = "LeadersTab" THEN MountLeaders ELSE NoLeaders
    /\ IF Component(tab) = "ProfileTab" THEN MountProfile ELSE NoProfile
    /\ mounts' = mounts + 1

\* lines 341-347: the earlier App's mount effect sets the 2 s timer
StartEarlier ==
    /\ build = "earlier"
    /\ pc = "init"
    /\ EnterTimer
    /\ UNCHANGED <<build, tg, user, userStats, isLoading, effects, resync, demoCalls,
                   usersPosts, userSets, realOutcome, demoOutcome, bootRank>>
    /\ UNCHANGED uiVars

\* lines 787-789 / 343-345: the timer fires, setIsLoading(false); the App now
\* renders the active panel (lines 860-875 / 349-360)
TimerFire ==
    /\ pc = "timer"
    /\ pc' = "done"
    /\ isLoading' = FALSE
    /\ ShowPanel(activeTab)
    /\ UNCHANGED <<build, tg, user, userStats, effects, resync, demoCalls, usersPosts,
                   userSets, realOutcome, demoOutcome, bootRank>>
    /\ UNCHANGED <<activeTab, now, panelUser, submits, events, lastEvent, ends,
                   scorePosts, scoreOks>>

-----------------------------------------------------------------------------
(* Tab routing.                                                             *)

\* SelectTab remounting the panel on every click, as a key that changes with
\* each click would
SelectTabRemount(id) ==
    /\ build \in {"current", "earlier"}
    /\ ~isLoading
    /\ events < MaxEvents
    /\ activeTab' = id
    /\ ShowPanel(id)
    /\ events' = events + 1
    /\ lastEvent' = "select"
    /\ UNCHANGED <<bootVars, now, panelUser, submits, ends, scorePosts, scoreOks>>

\* onClick={() => setActiveTab(tab.id)} (line 886 / 369): the nav is rendered
\* once loading is over; a panel is replaced when the component changes
SelectTab(id) ==
    /\ build \in {"current", "earlier"}
    /\ ~isLoading
    /\ events < MaxEvents
    /\ activeTab' = id
    /\ IF Component(id) = Component(activeTab)
         THEN UNCHANGED <<panelVars, mounts>>
         ELSE ShowPanel(id)
    /\ events' = events + 1
    /\ lastEvent' = "select"
    /\ UNCHANGED <<bootVars, now, panelUser, submits, ends, scorePosts, scoreOks>>

-----------------------------------------------------------------------------
(* The game panel.                                                          *)

GameMounted == ~isLoading /\ Component(activeTab) = "BlockBlastGame"

\* the start button (lines 454-461 / 106-113) or the restart button
\* (lines 475-485 / 130-140) is rendered
StartButtonShown == (~isPlaying /\ ~gameOver) \/ gameOver

\* StartGame without its setGameOver(false)
StartGameKeepOver ==
    /\ GameMounted
    /\ StartButtonShown
    /\ events < MaxEvents
    /\ isPlaying' = TRUE
    /\ gameOver' = gameOver
    /\ score' = 0
    /\ \E dt \in ElapsedMs :
         /\ now' = now + dt
         /\ gameStartTime' = now + dt
         /\ pollTimers' = PollRerun(TRUE, now + dt)
    /\ events' = events + 1
    /\ lastEvent' = "start"
    /\ UNCHANGED <<bootVars, activeTab, panelUser, submits, leadersVars,
                   profileVars, mounts, ends, scorePosts, scoreOks>>

\* startGame, lines 417-422 / 35-40
StartGame ==
    /\ GameMounted
    /\ StartButtonShown
    /\ events < MaxEvents
    /\ isPlaying' = TRUE
    /\ gameOver' = FALSE
    /\ score' = 0
    /\ \E dt \in ElapsedMs :
         /\ now' = now + dt
         /\ gameStartTime' = now + dt
         /\ pollTimers' = PollRerun(TRUE, now + dt)
    /\ events' = events + 1
    /\ lastEvent' = "start"
    /\ UNCHANGED <<bootVars, activeTab, panelUser, submits, leadersVars,
                   profileVars, mounts, ends, scorePosts, scoreOks>>

\* line 433 / 51
GameDuration(t) ==
    IF gameStartTime # UndefNum /\ gameStartTime # 0
      THEN (t - gameStartTime) \div 1000
      ELSE 0

\* SimulateGameOver waiting for the POST before it moves the panel to Over
SimulateGameOverAwaitFirst(t) ==
    /\ gameOver' = gameOver
    /\ isPlaying' = isPlaying
    /\ pollTimers' = pollTimers
    /\ now' = t
    /\ \E finalScore \in FinalScores :
         /\ score' = finalScore
         /\ IF HasId(GameUser)
              THEN /\ submits' = Append(submits,
                                        [user_id |-> GameUser.id,
                                         score |-> finalScore,
                                         game_duration |-> GameDuration(t)])
                   /\ scorePosts' = scorePosts + 1
              ELSE UNCHANGED <<submits, scorePosts>>
    /\ ends' = ends + 1

\* simulateGameOver, lines 424-448 / 42-66, called at time t, up to the await
\* of POST /scores
SimulateGameOver(t) ==
    /\ gameOver' = TRUE
    /\ isPlaying' = FALSE
    /\ pollTimers' = IF isPlaying THEN PollRerun(FALSE, gameStartTime) ELSE pollTimers
    /\ now' = t
    /\ \E finalScore \in FinalScores :
         /\ score' = finalScore
         /\ IF HasId(GameUser)
              THEN /\ submits' = Append(submits,
                                        [user_id |-> GameUser.id,
                                         score |-> finalScore,
                                         game_duration |-> GameDuration(t)])
                   /\ scorePosts' = scorePosts + 1
              ELSE UNCHANGED <<submits, scorePosts>>
    /\ ends' = ends + 1

\* the end-game button of lines 124-126, rendered while playing; the current
\* panel (lines 464-473) renders an iframe and no such button
EndGame ==
    /\ build # "current"
    /\ GameMounted
    /\ isPlaying
    /\ events < MaxEvents
    /\ \E dt \in ElapsedMs : SimulateGameOver(now + dt)
    /\ events' = events + 1
    /\ lastEvent' = "end"
    /\ UNCHANGED <<bootVars, activeTab, gameStartTime, panelUser,
                   leadersVars, profileVars, mounts, scoreOks>>

\* document.body.textContent.includes('No Space Left') (lines 84-85): the text
\* is the heading of the game-over block (line 132)
BodyHasNoSpaceLeft == GameMounted /\ gameOver

\* one tick of the interval of lines 81-91
PollTick ==
    /\ pollLive
    /\ \E i \in 1..Len(pollTimers) :
         IF pollTimers[i].isPlaying /\ BodyHasNoSpaceLeft
           THEN /\ \E dt \in ElapsedMs : SimulateGameOver(now + dt)
                /\ UNCHANGED <<bootVars, activeTab, gameStartTime, panelUser,
                               leadersVars, profileVars, events, lastEvent, mounts,
                               scoreOks>>
           ELSE UNCHANGED vars

\* lines 443 / 61: a POST /scores answered; logged only
SubmitOk ==
    /\ \E i \in 1..Len(submits) : submits' = RemoveAt(submits, i)
    /\ scoreOks' = scoreOks + 1
    /\ UNCHANGED <<bootVars, activeTab, now, panelUser, panelVars, events, lastEvent,
                   mounts, ends, scorePosts>>

\* lines 444-446 / 62-64: a POST /scores failed; logged only
SubmitFail ==
    /\ \E i \in 1..Len(submits) : submits' = RemoveAt(submits, i)
    /\ UNCHANGED <<bootVars, activeTab, now, panelUser, panelVars, histVars>>

-----------------------------------------------------------------------------
(* The fetch-on-mount panels.                                               *)

\* lines 512-513, 524-526: GET /leaderboard answered
LeadersOk ==
    /\ leadersReq
    /\ \E data \in LeaderboardResponses : leaders' = data
    /\ leadersLoading' = FALSE
    /\ leadersReq' = FALSE
    /\ leadersOutcome' = "ok"
    /\ UNCHANGED leadersReads
    /\ UNCHANGED <<bootVars, activeTab, now, panelUser, submits, gameVars,
                   profileVars, histVars>>

\* LeadersFail leaving the list empty, as a catch that only logs would
LeadersFailEmpty ==
    /\ leadersReq
    /\ leaders' = <<>>
    /\ leadersLoading' = FALSE
    /\ leadersReq' = FALSE
    /\ leadersOutcome' = "fail"
    /\ UNCHANGED leadersReads
    /\ UNCHANGED <<bootVars, activeTab, now, panelUser, submits, gameVars,
                   profileVars, histVars>>

\* lines 514-526: GET /leaderboard failed
LeadersFail ==
    /\ leadersReq
    /\ leaders' = PlaceholderLeaders
    /\ leadersLoading' = FALSE
    /\ leadersReq' = FALSE
    /\ leadersOutcome' = "fail"
    /\ UNCHANGED leadersReads
    /\ UNCHANGED <<bootVars, activeTab, now, panelUser, submits, gameVars,
                   profileVars, histVars>>

\* lines 606-614, 627: ProfileTab's GET /stats/user/{id} answered
ProfileOk ==
    /\ profileReq # Null
    /\ \E rank \in RankResponses : profileStats' = MergeStats(profileReq, rank)
    /\ profileLoading' = FALSE
    /\ profileReq' = Null
    /\ profileOutcome' = "ok"
    /\ UNCHANGED profileReads
    /\ UNCHANGED <<bootVars, activeTab, now, panelUser, submits, gameVars,
                   leadersVars, histVars>>

\* lines 615-627: ProfileTab's GET /stats/user/{id} failed
ProfileFail ==
    /\ profileReq # Null
    /\ profileStats' = ProfileFallbackStats(profileReq)
    /\ profileLoading' = FALSE
    /\ profileReq' = Null
    /\ profileOutcome' = "fail"
    /\ UNCHANGED profileReads
    /\ UNCHANGED <<bootVars, activeTab, now, panelUser, submits, gameVars,
                   leadersVars, histVars>>

\* PlayerRankOverlay (lines 684-709, rendered at line 876) shows the rank line
OverlayShown ==
    /\ build = "current"
    /\ ~isLoading
    /\ user # Null
    /\ userStats # Null
    /\ userStats.rank # 0
    /\ activeTab # "profile"

-----------------------------------------------------------------------------
(* Specifications.                                                          *)

\* the state after construction, before any effect has run
InitBoot ==
    /\ pc = "init"
    /\ user = Null
    /\ userStats = InitialStats
    /\ isLoading = TRUE
    /\ effects = <<>>
    /\ resync = <<>>
    /\ demoCalls = 0
    /\ usersPosts = 0
    /\ userSets = 0
    /\ realOutcome = "none"
    /\ demoOutcome = "none"
    /\ bootRank = UndefNum

InitUi ==
    /\ activeTab = "game"
    /\ now = 0
    /\ score = 0
    /\ gameOver = FALSE
    /\ isPlaying = FALSE
    /\ gameStartTime = UndefNum
    /\ submits = <<>>
    /\ leaders = <<>>
    /\ leadersLoading = TRUE
    /\ leadersReq = FALSE
    /\ leadersReads = 0
    /\ leadersOutcome = "none"
    /\ profileStats = InitialStats
    /\ profileLoading = TRUE
    /\ profileReq = Null
    /\ profileReads = 0
    /\ profileOutcome = "none"
    /\ events = 0
    /\ lastEvent = "none"
    /\ ends = 0
    /\ scorePosts = 0
    /\ scoreOks = 0

\* the current App before its mount effect
InitCurrent ==
    /\ build = "current"
    /\ tg \in TgInputs
    /\ InitBoot
    /\ InitUi
    /\ pollTimers = <<>>
    /\ panelUser = Null
    /\ mounts = 0

\* the earlier App before its mount effect
InitEarlier ==
    /\ build = "earlier"
    /\ tg = NoTg
    /\ InitBoot
    /\ InitUi
    /\ pollTimers = <<>>
    /\ panelUser = Null
    /\ mounts = 0

\* the earlier game panel mounted on its own with a user prop
InitPanel ==
    /\ build = "panel"
    /\ tg = NoTg
    /\ pc = "done"
    /\ user = Null
    /\ userStats = InitialStats
    /\ isLoading = FALSE
    /\ effects = <<>>
    /\ resync = <<>>
    /\ demoCalls = 0
    /\ usersPosts = 0
    /\ userSets = 0
    /\ realOutcome = "none"
    /\ demoOutcome = "none"
    /\ bootRank = UndefNum
    /\ InitUi
    /\ pollTimers = <<[isPlaying |-> FALSE, gameStartTime |-> UndefNum]>>
    /\ panelUser \in PanelUsers
    /\ mounts = 1

Init == InitCurrent \/ InitEarlier \/ InitPanel

\* the steps of the bootstrap, of the re-sync effect and of the loading timer
BootNext ==
    \/ StartApp
    \/ RealPostOk
    \/ RealPostFail
    \/ RealStatsOk
    \/ RealStatsFail
    \/ DemoPostOk
    \/ DemoPostFail
    \/ DemoStatsOk
    \/ DemoStatsFail
    \/ ResyncEffect
    \/ ResyncOk
    \/ ResyncFail
    \/ TimerFire

Next ==
    \/ BootNext
    \/ StartEarlier
    \/ \E id \in Tabs : SelectTab(id)
    \/ StartGame
    \/ EndGame
    \/ PollTick
    \/ SubmitOk
    \/ SubmitFail
    \/ LeadersOk
    \/ LeadersFail
    \/ ProfileOk
    \/ ProfileFail

Spec == Init /\ [][Next]_vars

\* the current App alone, up to the end of loading
BootSpec == InitCurrent /\ [][BootNext]_vars

\* an answer, success or failure, to the call the bootstrap is waiting for
BootReturns ==
    \/ RealPostOk \/ RealPostFail \/ RealStatsOk \/ RealStatsFail
    \/ DemoPostOk \/ DemoPostFail \/ DemoStatsOk \/ DemoStatsFail

\* the event loop runs the mount effect and every effect that is scheduled,
\* and fires a timer that is set
LoopFair == WF_vars(StartApp) /\ WF_vars(ResyncEffect) /\ WF_vars(TimerFire)

\* the current App when every call that is issued returns
BootFair ==
    BootSpec /\ LoopFair /\ WF_vars(BootReturns) /\ WF_vars(ResyncOk \/ ResyncFail)

\* the current App when a call may never return: no timeout is set on any
\* call, so nothing is assumed of the network
HangSpec == BootSpec /\ LoopFair

\* the steps of the earlier game panel mounted on its own
PanelNext ==
    \/ StartGame
    \/ EndGame
    \/ PollTick
    \/ SubmitOk
    \/ SubmitFail

PanelSpec == InitPanel /\ [][PanelNext]_vars

\* the game panel when every POST /scores that is issued returns
PanelFair == PanelSpec /\ WF_vars(SubmitOk \/ SubmitFail)

-----------------------------------------------------------------------------
(* The claims.                                                              *)

\* initializeApp has reached its finally: the bootstrap sequence is over
BootFinished == pc \in {"timer", "done"}

\* C1: whatever the host identity and however the create-user and rank-fetch
\* calls end, if every issued call returns then the bootstrap eventually
\* finishes with user and userStats both non-null.
C1_BootstrapYieldsUser ==
    <>(BootFinished /\ user # Null /\ userStats # Null)

\* C1 witness: the bootstrap is over after both paths failed, and the user is
\* the local fallback.
C1_Witness ==
    /\ pc = "done"
    /\ realOutcome = "fail"
    /\ demoOutcome = "fail"
    /\ user = LocalDemoUser

\* C2: the loading screen is eventually dismissed on every execution, also
\* when an outbound call never completes.
C2_LoadingDismissed == <>(isLoading = FALSE)

\* C3: when the real-identity path fails createDemoUser has run exactly once;
\* createDemoUser never runs twice and POST /users is never issued more than
\* twice (one real attempt, one demo attempt).
C3_SingleDemoRetry ==
    /\ demoCalls <= 1
    /\ usersPosts <= 2
    /\ realOutcome \in {"fail", "threw"} => demoCalls = 1
    /\ usersPosts = (IF realOutcome \in {"ok", "fail"} \/ pc \in {"realPost", "realStats"}
                       THEN 1 ELSE 0) + demoCalls

\* C3 witness: both paths failed after one real and one demo POST /users.
C3_Witness ==
    /\ realOutcome = "fail"
    /\ demoOutcome = "fail"
    /\ demoCalls = 1
    /\ usersPosts = 2
    /\ pc = "done"

\* C4: once the real-identity path and the demo-identity path have both
\* failed, userStats.rank is 0 and bestScore, gamesPlayed and totalScore are 0
\* in every later state, the re-sync effect included.
C4_FallbackStatsStayZero ==
    (realOutcome = "fail" /\ demoOutcome = "fail") =>
        /\ userStats.rank = 0
        /\ userStats.bestScore = 0
        /\ userStats.gamesPlayed = 0
        /\ userStats.totalScore = 0

\* what the spec's example expects for alice with rank 7
AliceStats7 == [username |-> "alice", avatar |-> Undef, bestScore |-> 100,
                gamesPlayed |-> 3, totalScore |-> 250, rank |-> 7]

\* C5: when the host identity is present and create-user and the rank fetch
\* both succeed, the demo path is not attempted, and the userStats the
\* bootstrap sets carries the record's username, bestScore, gamesPlayed and
\* totalScore and the rank the rank fetch returned (alice, 100, 3, 250 and rank
\* 7 give exactly those); the record's fields stay in userStats afterwards.
C5_RealPathMerge ==
    /\ [][(pc = "realStats" /\ pc' = "timer") =>
            /\ user' = user
            /\ demoCalls' = 0
            /\ userStats'.rank = bootRank'
            /\ userStats'.bestScore = user.best_score
            /\ userStats'.gamesPlayed = user.games_played
            /\ userStats'.totalScore = user.total_score
            /\ Truthy(user.username) => userStats'.username = user.username
            /\ (user.username = "alice" /\ bootRank' = 7) => userStats' = AliceStats7]_vars
    /\ [](realOutcome = "ok" =>
            /\ demoCalls = 0
            /\ demoOutcome = "none"
            /\ userStats.bestScore = user.best_score
            /\ userStats.gamesPlayed = user.games_played
            /\ userStats.totalScore = user.total_score
            /\ Truthy(user.username) => userStats.username = user.username)

\* C5 witness: the spec's example has happened.
C5_Witness ==
    /\ realOutcome = "ok"
    /\ bootRank = 7
    /\ user.id = "u42"
    /\ userStats = AliceStats7
    /\ pc = "done"

\* C6: the bootstrap assigns user a non-null record exactly once, and the id
\* of the user never changes once it is assigned.
C6_UserAssignedOnce ==
    /\ [](userSets <= 1)
    /\ [][user # Null => (user' # Null /\ user'.id = user.id)]_vars

\* a user click ran the handler h in this step
Clicked(h) == events' = events + 1 /\ lastEvent' = h

\* C7: every start leaves score = 0, isPlaying = true, gameOver = false and is
\* taken from a state that is not Playing; no state has isPlaying and gameOver
\* both true.
C7_StartFromIdleOrOver ==
    /\ [][Clicked("start") =>
            /\ ~isPlaying
            /\ score' = 0
            /\ isPlaying' = TRUE
            /\ gameOver' = FALSE]_vars
    /\ [](isPlaying => ~StartButtonShown /\ ~ENABLED StartGame)
    /\ [](~(isPlaying /\ gameOver))

\* C7 witness: a session was restarted from Over.
C7_Witness ==
    /\ lastEvent = "start"
    /\ ends >= 1
    /\ isPlaying
    /\ ~gameOver
    /\ score = 0

\* C8: every end transition moves the session to Over and issues exactly one
\* POST /scores, whatever user the panel was given.
C8_EndSubmitsOnce ==
    [][ends' = ends + 1 =>
        /\ gameOver' = TRUE
        /\ isPlaying' = FALSE
        /\ scorePosts' = scorePosts + 1
        /\ Len(submits') = Len(submits) + 1]_vars

\* C9: the panel is Over as soon as the POST /scores is issued, while the
\* request is still in flight; an answer to it, success or failure, leaves
\* the panel's state alone, and only a click takes the panel out of Over;
\* while the panel is Over with a submission in flight the restart is enabled.
C9_SubmitFireAndForget ==
    /\ [][scorePosts' = scorePosts + 1 =>
            /\ gameOver' = TRUE
            /\ isPlaying' = FALSE
            /\ submits' = Append(submits, submits'[Len(submits')])]_vars
    /\ [][Len(submits') < Len(submits) => UNCHANGED gameVars]_vars
    /\ [][(gameOver /\ ~gameOver') => events' = events + 1]_vars
    /\ []((GameMounted /\ gameOver /\ submits # <<>> /\ events < MaxEvents)
            => (StartButtonShown /\ ENABLED StartGame))

\* C9 witness: a session was restarted while the submission of the one before
\* was still in flight.
C9_Witness ==
    /\ lastEvent = "start"
    /\ isPlaying
    /\ ends = 1
    /\ Len(submits) = 1

\* C10: a click on the tab that is already active leaves activeTab and the
\* mounted panel as they are: no mount, no change of the panel's state, no new
\* fetch-on-mount request.
C10_SelectSameTabIdempotent ==
    [][(Clicked("select") /\ activeTab' = activeTab) =>
        /\ mounts' = mounts
        /\ UNCHANGED panelVars]_vars

\* C10 witness: the game tab was clicked while a session was being played,
\* and the session is still there.
C10_Witness ==
    /\ lastEvent = "select"
    /\ activeTab = "game"
    /\ isPlaying
    /\ gameStartTime # UndefNum

-----------------------------------------------------------------------------
\* a LeadersTab is on screen
LeadersMounted == ~isLoading /\ Component(activeTab) = "LeadersTab"

\* the step is the failure of the mounted LeadersTab's GET /leaderboard
LeadersFailed == leadersReq /\ leadersOutcome' = "fail"

\* C11: when GET /leaderboard fails, LeadersTab shows the fixed placeholder
\* ranking of five entries with ranks 1 to 5 in ascending order and is no
\* longer loading; the failure reaches nothing else: the App's state, the
\* active tab and the other panels stay as they were.
C11_LeadersFallback ==
    /\ []((LeadersMounted /\ leadersOutcome = "fail") =>
            /\ ~leadersLoading
            /\ Len(ShownLeaders) = 5
            /\ \A i \in 1..Len(ShownLeaders) : ShownLeaders[i].rank = i
            /\ [i \in 1..Len(ShownLeaders) |-> ShownLeaders[i].username]
                 = <<"ProGamer", "BlockMaster", "PuzzleKing", "GameHero", "BlastExpert">>
            /\ [i \in 1..Len(ShownLeaders) |-> ShownLeaders[i].best_score]
                 = <<15420, 12890, 11230, 9870, 8450>>)
    /\ [][LeadersFailed =>
            UNCHANGED <<bootVars, activeTab, submits, gameVars, profileVars>>]_vars

C11_Witness ==
    /\ LeadersMounted
    /\ leadersOutcome = "fail"
    /\ leaders = PlaceholderLeaders
    /\ ~leadersLoading

-----------------------------------------------------------------------------
\* a ProfileTab is on screen
ProfileMounted == ~isLoading /\ Component(activeTab) = "ProfileTab"

\* C12: every mounted LeadersTab and every mounted ProfileTab has issued
\* exactly one read request, and is loading exactly while that request is in
\* flight.
C12_OneReadPerMount ==
    /\ LeadersMounted => (leadersReads = 1 /\ leadersLoading = leadersReq)
    /\ ProfileMounted => (profileReads = 1 /\ profileLoading = (profileReq # Null))

-----------------------------------------------------------------------------
\* the step is the failure of the mounted ProfileTab's GET /stats/user/{id}
ProfileFailed == profileReq # Null /\ profileOutcome' = "fail"

\* C13 as stated: when ProfileTab's GET /stats/user/{id} has failed the stats
\* it shows are zero-valued, whatever the user record.
C13_ProfileFallbackZero ==
    (ProfileMounted /\ profileOutcome = "fail") =>
        /\ profileStats.bestScore = 0
        /\ profileStats.gamesPlayed = 0
        /\ profileStats.totalScore = 0
        /\ profileStats.rank = 0

\* C13, amended: when ProfileTab's GET /stats/user/{id} has failed the panel
\* is no longer loading and shows rank 0 with the bestScore, gamesPlayed and
\* totalScore of the user record it was given, 0 only where the record has
\* none; the failure reaches nothing else.
C13_ProfileFallback ==
    /\ []((ProfileMounted /\ profileOutcome = "fail") =>
            /\ ~profileLoading
            /\ profileStats.rank = 0
            /\ profileStats.bestScore =
                 (IF ProfileUser.best_score = UndefNum THEN 0 ELSE ProfileUser.best_score)
            /\ profileStats.gamesPlayed =
                 (IF ProfileUser.games_played = UndefNum THEN 0
                  ELSE ProfileUser.games_played)
            /\ profileStats.totalScore =
                 (IF ProfileUser.total_score = UndefNum THEN 0
                  ELSE ProfileUser.total_score))
    /\ [][ProfileFailed =>
            UNCHANGED <<bootVars, activeTab, submits, gameVars, leadersVars>>]_vars

\* C13 witness: the fetch failed for alice, and the panel shows her 100, 3
\* and 250 with rank 0.
C13_Witness ==
    /\ ProfileMounted
    /\ profileOutcome = "fail"
    /\ ProfileUser.id = "u42"
    /\ profileStats.bestScore = 100
    /\ profileStats.gamesPlayed = 3
    /\ profileStats.totalScore = 250
    /\ profileStats.rank = 0

-----------------------------------------------------------------------------
\* C14: a rank missing from a GET /stats/user/{id} answer is taken as 0
\* wherever it is read (bootstrap, re-sync, ProfileTab): the rank held in
\* userStats and in ProfileTab's stats is always a number, and the rank overlay
\* is not shown for a rank that is not known.
C14_RankDefaulted ==
    /\ userStats.rank # UndefNum
    /\ profileStats.rank # UndefNum
    /\ OverlayShown => userStats.rank \in Nat \ {0}

-----------------------------------------------------------------------------
-----------------------------------------------------------------------------
\* the earlier game panel, the one with the poll, is on screen
PollingPanelMounted == GameMounted /\ build # "current"

-----------------------------------------------------------------------------
\* C17: once the bootstrap is over, no effect is left to run and no re-sync
\* call is in flight, the
\* username, bestScore, gamesPlayed and totalScore of userStats are those of
\* the current user record, in whatever order the calls were answered.
C17_StatsProjectUser ==
    (BootFinished /\ effects = <<>> /\ resync = <<>> /\ user # Null) =>
        /\ userStats.username = DisplayName(user)
        /\ userStats.bestScore = user.best_score
        /\ userStats.gamesPlayed = user.games_played
        /\ userStats.totalScore = user.total_score

-----------------------------------------------------------------------------
\* a step of the end-game control or of the poll that runs simulateGameOver
EndTransition == (EndGame \/ PollTick) /\ ends' = ends + 1

\* C18: in every state where the mounted game panel is Playing (and the user
\* may still act) an end transition is enabled, so that Over and the score
\* submission can be reached from it.
C18_EndEnabledFromPlaying ==
    (GameMounted /\ isPlaying /\ events < MaxEvents) => ENABLED EndTransition

-----------------------------------------------------------------------------
\* C19: in the current App, whenever the loading screen is gone user is a
\* record, so every panel, ProfileTab with its user.telegram_id included, is
\* rendered with a user; and once isLoading is false it stays false.
C19_LoadingGate ==
    /\ []((build = "current" /\ ~isLoading) => (user # Null /\ BootFinished))
    /\ []((build = "current" /\ ProfileMounted) => ProfileUser # Null)
    /\ [][~isLoading => ~isLoading']_vars

\* C19 witness: the current App shows ProfileTab with the local fallback user
\* after both identity paths failed.
C19_Witness ==
    /\ build = "current"
    /\ ProfileMounted
    /\ realOutcome = "fail"
    /\ demoOutcome = "fail"
    /\ user = LocalDemoUser

-----------------------------------------------------------------------------
\* a click on a tab in this step replaced the game panel by another panel
LeftGame ==
    /\ Clicked("select")
    /\ Component(activeTab) = "BlockBlastGame"
    /\ Component(activeTab') # "BlockBlastGame"

\* a click on a tab in this step mounted the game panel
BackToGame ==
    /\ Clicked("select")
    /\ Component(activeTab) # "BlockBlastGame"
    /\ Component(activeTab') = "BlockBlastGame"

\* the session of a game panel that has just been mounted
IdleSession(sc, over, playing, startTime) ==
    sc = 0 /\ ~over /\ ~playing /\ startTime = UndefNum

\* C20: a click on another tab unmounts the game panel and its session is
\* gone, whether it was Idle, Playing or Over; the click ends no session and
\* issues no POST /scores; while another panel is shown no session is running;
\* and the click that brings the game tab back mounts a panel whose session is
\* Idle with score 0.
C20_TabSwitchDiscardsSession ==
    /\ [][LeftGame =>
            /\ mounts' = mounts + 1
            /\ ends' = ends
            /\ scorePosts' = scorePosts
            /\ submits' = submits
            /\ IdleSession(score', gameOver', isPlaying', gameStartTime')]_vars
    /\ [][BackToGame =>
            /\ mounts' = mounts + 1
            /\ IdleSession(score', gameOver', isPlaying', gameStartTime')]_vars
    /\ [](~GameMounted => IdleSession(score, gameOver, isPlaying, gameStartTime))

\* C20 witness: a session was started and ended, another tab was selected
\* and then the game tab again, and the panel is Idle with score 0.
C20_Witness ==
    /\ lastEvent = "select"
    /\ activeTab = "game"
    /\ events = 4
    /\ ends = 1
    /\ mounts = 3
    /\ IdleSession(score, gameOver, isPlaying, gameStartTime)

====
